---- MODULE Spec2Model ----
(***************************************************************************)
(* Payments service of src/index.js: the in-memory record store (users,    *)
(* orders) and the route handlers that read and write it.  Every handler   *)
(* is cut at its awaits: the code between two awaits runs without          *)
(* interleaving (one JavaScript event loop), a suspended handler is an     *)
(* entry of inflight, and any other handler may run while it is suspended. *)
(***************************************************************************)
EXTENDS Integers, FiniteSets, Sequences, Bags, TLC

\* ---------------------------------------------------------------- bounds
NumUsers == 1          \* user identifiers a request body may carry
MaxCustomers == 2      \* customers the card provider creates
MaxSessions == 1       \* checkout sessions the card provider creates
MaxPaypalOrders == 1   \* orders the PayPal provider creates
NumSubs == 2           \* subscription identifiers events may carry
MaxInFlight == 2       \* handlers suspended at an await at the same time

\* ------------------------------------------------------------- constants
Null == 0              \* JavaScript null / undefined for identifiers
NullStatus == "null"   \* JavaScript null / undefined for status strings

UserIds == 1..NumUsers
AnonKey == -1          \* `anon_${Date.now()}`, the clock read as one value
UserKeys == UserIds \cup {AnonKey}
Emails == {1}
CustIds == 1..MaxCustomers
SessionIds == 1..MaxSessions
PaypalIds == {-p : p \in 1..MaxPaypalOrders}
SubIds == 1..NumSubs
Statuses == {"active", "canceled"}
PaypalStatuses == {"CREATED", "COMPLETED"}

CheckoutCompleted == "checkout.session.completed"
InvoicePaid == "invoice.payment_succeeded"
SubscriptionTypes == {"customer.subscription.updated",
                      "customer.subscription.deleted",
                      "customer.subscription.created"}
OtherType == "payment_intent.created"

VARIABLES users, userKeys, orders, inflight, nextCustomer, nextSession,
          nextPaypal, webhookSecret, last

vars == <<users, userKeys, orders, inflight, nextCustomer, nextSession,
          nextPaypal, webhookSecret, last>>

store == <<users, userKeys, orders>>

\* ------------------------------------------------------------ the events
NoEvent == [type |-> "none", hasData |-> FALSE, id |-> Null, customer |-> Null,
            subscription |-> Null, status |-> NullStatus, metaUser |-> Null]

\* event.data.object of a checkout.session.completed event
CheckoutEvents ==
  [type : {CheckoutCompleted}, hasData : {TRUE}, id : SessionIds,
   customer : CustIds \cup {Null}, subscription : SubIds \cup {Null},
   status : {NullStatus}, metaUser : UserIds \cup {Null}]

\* event.data.object of a customer.subscription.* event
SubscriptionEvents ==
  [type : SubscriptionTypes, hasData : {TRUE}, id : SubIds,
   customer : CustIds \cup {Null}, subscription : {Null},
   status : Statuses, metaUser : {Null}]

LogOnlyEvents ==
  [type : {InvoicePaid, OtherType}, hasData : {TRUE}, id : {Null},
   customer : {Null}, subscription : {Null}, status : {NullStatus},
   metaUser : {Null}]

\* what stripe.webhooks.constructEvent returns: an event the provider signed.
\* The provider's subscriptions always belong to a customer.
VerifiedEvents ==
  {ev \in CheckoutEvents : ev.subscription # Null => ev.customer # Null}
  \cup {ev \in SubscriptionEvents : ev.customer # Null}
  \cup LogOnlyEvents

\* a request body nobody verified may also lack its data object
MalformedEvents ==
  [type : {CheckoutCompleted, InvoicePaid, OtherType} \cup SubscriptionTypes,
   hasData : {FALSE}, id : {Null}, customer : {Null}, subscription : {Null},
   status : {NullStatus}, metaUser : {Null}]

Events == VerifiedEvents \cup MalformedEvents

\* ------------------------------------------------------------- the store
NewUser(email) ==
  [email |-> email, stripeCustomerId |-> Null, subscriptionId |-> Null,
   subscriptionStatus |-> NullStatus]

NoOrder == [provider |-> "undefined", ref |-> Null, userId |-> Null,
            status |-> NullStatus, capture |-> NullStatus]

\* users.set(key, rec): a new key goes to the end of the iteration order
UsersSet(us, key, rec) ==
  [k \in DOMAIN us \cup {key} |-> IF k = key THEN rec ELSE us[k]]

KeysSet(ks, us, key) == IF key \in DOMAIN us THEN ks ELSE Append(ks, key)

OrdersSet(os, key, rec) ==
  [k \in DOMAIN os \cup {key} |-> IF k = key THEN rec ELSE os[k]]

\* faulty variant of EnsureUser: the record is set whether or not it exists
EnsureUserReset(us, key, email) == UsersSet(us, key, NewUser(email))

\* ensureUser(userId, email), lines 63-73: the users map afterwards
EnsureUser(us, key, email) ==
  IF key \in DOMAIN us THEN us ELSE UsersSet(us, key, NewUser(email))

\* the first key, in iteration order, whose record has this customer id
\* (u.stripeCustomerId === custId; null === null holds), or Null
RECURSIVE FirstMatch(_, _, _)
FirstMatch(us, ks, cust) ==
  IF ks = <<>> THEN Null
  ELSE IF us[Head(ks)].stripeCustomerId = cust THEN Head(ks)
  ELSE FirstMatch(us, Tail(ks), cust)

\* the last handler step: the route, the response code (Null while the
\* handler is suspended at an await) and, for a webhook request, whether its
\* signature verified and the event that was handled
Out(route, code, sigOk, ev) ==
  [route |-> route, code |-> code, sigOk |-> sigOk, ev |-> ev]

Resp(route, code) == Out(route, code, FALSE, NoEvent)

Room == BagCardinality(inflight) < MaxInFlight

Suspend(r) == inflight' = inflight (+) SetToBag({r})
Resume(r) == inflight' = inflight (-) SetToBag({r})
Move(r, q) == inflight' = (inflight (-) SetToBag({r})) (+) SetToBag({q})

Call(op, pc, key, userId, id) ==
  [op |-> op, pc |-> pc, key |-> key, userId |-> userId, id |-> id]

Init ==
  /\ users = <<>>
  /\ userKeys = <<>>
  /\ orders = <<>>
  /\ inflight = EmptyBag
  /\ nextCustomer = 1
  /\ nextSession = 1
  /\ nextPaypal = 1
  /\ webhookSecret \in BOOLEAN
  /\ last = Resp("none", Null)

\* ------------------------------------------- POST /create-checkout-session
\* lines 90-98: validation, ensureUser, then the first await of the handler
CheckoutBegin(userId, email, priceId) ==
  LET key == IF userId # Null THEN userId ELSE AnonKey
      us == EnsureUser(users, key, email)
  IN IF priceId = Null
     THEN /\ last' = Resp("create-checkout-session", 400)
          /\ UNCHANGED <<store, inflight, nextCustomer, nextSession,
                         nextPaypal, webhookSecret>>
     ELSE /\ Room
          /\ users' = us
          /\ userKeys' = KeysSet(userKeys, users, key)
          /\ Suspend(Call("checkout",
                          IF us[key].stripeCustomerId = Null
                          THEN "customer" ELSE "session",
                          key, userId, Null))
          /\ last' = Resp("create-checkout-session", Null)
          /\ UNCHANGED <<orders, nextCustomer, nextSession, nextPaypal,
                         webhookSecret>>

\* lines 99-105: stripe.customers.create resolved with a fresh customer id
CustomerAssign(us, key, cust) ==
  [us EXCEPT ![key].stripeCustomerId = cust]

CheckoutCustomerCreated(r) ==
  /\ r.op = "checkout" /\ r.pc = "customer"
  /\ nextCustomer <= MaxCustomers
  /\ users' = CustomerAssign(users, r.key, nextCustomer)
  /\ nextCustomer' = nextCustomer + 1
  /\ Move(r, [r EXCEPT !.pc = "session"])
  /\ last' = Resp("create-checkout-session", Null)
  /\ UNCHANGED <<userKeys, orders, nextSession, nextPaypal, webhookSecret>>

\* lines 107-125: stripe.checkout.sessions.create resolved with a fresh id
CheckoutSessionCreated(r) ==
  /\ r.op = "checkout" /\ r.pc = "session"
  /\ nextSession <= MaxSessions
  /\ orders' = OrdersSet(orders, nextSession,
                 [provider |-> "stripe", ref |-> nextSession,
                  userId |-> r.userId, status |-> "created",
                  capture |-> NullStatus])
  /\ nextSession' = nextSession + 1
  /\ Resume(r)
  /\ last' = Resp("create-checkout-session", 200)
  /\ UNCHANGED <<users, userKeys, nextCustomer, nextPaypal, webhookSecret>>

\* lines 126-129: either provider call rejected
CheckoutFailed(r) ==
  /\ r.op = "checkout"
  /\ Resume(r)
  /\ last' = Resp("create-checkout-session", 500)
  /\ UNCHANGED <<store, nextCustomer, nextSession, nextPaypal, webhookSecret>>

\* ------------------------------------------------------- POST /webhook
\* faulty variant of Accepted: a failed verification is not acted on
AcceptedAlways(secret, sigOk) == TRUE

\* lines 258-271: the event is accepted when no secret is configured or
\* constructEvent did not throw
Accepted(secret, sigOk) == ~secret \/ sigOk

\* faulty variant of Throws: the default branch throws as well
ThrowsOnUnhandled(ev) == ~ev.hasData \/ ev.type = OtherType

\* lines 277-280, 302-303, 310-311: event.data.object is dereferenced before
\* anything is written, so handling throws when it is missing; the default
\* branch never reads it
Throws(ev) == ~ev.hasData /\ ev.type # OtherType

\* faulty variant of CheckoutOrders: the order is written before the data
\* object is dereferenced
CheckoutOrdersEarly(os, ev) ==
  OrdersSet(os, ev.id, [provider |-> "stripe", ref |-> ev.id,
                        userId |-> ev.metaUser, status |-> "completed",
                        capture |-> NullStatus])

\* line 283: the order record of the session is set to a new object
CheckoutOrders(os, ev) ==
  IF Throws(ev) THEN os
  ELSE OrdersSet(os, ev.id, [provider |-> "stripe", ref |-> ev.id,
                             userId |-> ev.metaUser, status |-> "completed",
                             capture |-> NullStatus])

\* faulty variant of CheckoutUsers: the customer id is not compared
CheckoutUsersAll(us, ks, ev) ==
  IF ev.subscription = Null THEN us
  ELSE [k \in DOMAIN us |->
          [us[k] EXCEPT !.subscriptionId = ev.subscription,
                        !.subscriptionStatus = "active"]]

\* lines 286-297: attach the subscription to the first user of the customer
CheckoutUsers(us, ks, ev) ==
  LET m == FirstMatch(us, ks, ev.customer)
  IN IF ev.subscription = Null \/ m = Null THEN us
     ELSE [us EXCEPT ![m].subscriptionId = ev.subscription,
                     ![m].subscriptionStatus = "active"]

\* faulty variant of SubscriptionUsers: the reported status is not used
SubscriptionUsersActive(us, ks, ev) ==
  LET m == FirstMatch(us, ks, ev.customer)
  IN IF m = Null THEN us
     ELSE [us EXCEPT ![m].subscriptionId = ev.id,
                     ![m].subscriptionStatus = "active"]

\* lines 310-320: overwrite the subscription of the first user of the customer
SubscriptionUsers(us, ks, ev) ==
  LET m == FirstMatch(us, ks, ev.customer)
  IN IF m = Null THEN us
     ELSE [us EXCEPT ![m].subscriptionId = ev.id,
                     ![m].subscriptionStatus = ev.status]

Webhook(sigOk, ev) ==
  /\ sigOk => (webhookSecret /\ ev \in VerifiedEvents)
  /\ UNCHANGED <<userKeys, inflight, nextCustomer, nextSession, nextPaypal,
                 webhookSecret>>
  /\ IF ~Accepted(webhookSecret, sigOk)
     THEN /\ last' = Out("webhook", 400, sigOk, NoEvent)
          /\ UNCHANGED <<users, orders>>
     ELSE /\ last' = Out("webhook", IF Throws(ev) THEN 500 ELSE 200, sigOk, ev)
          /\ orders' = IF ev.type = CheckoutCompleted
                       THEN CheckoutOrders(orders, ev) ELSE orders
          /\ users' = IF Throws(ev) THEN users
                      ELSE IF ev.type = CheckoutCompleted
                      THEN CheckoutUsers(users, userKeys, ev)
                      ELSE IF ev.type \in SubscriptionTypes
                      THEN SubscriptionUsers(users, userKeys, ev)
                      ELSE users

\* ------------------------------------------------ GET /subscription-status
\* lines 221-229: validation, lookup, then the await of subscriptions.retrieve
StatusBegin(userId) ==
  /\ UNCHANGED <<store, nextCustomer, nextSession, nextPaypal, webhookSecret>>
  /\ IF userId = Null
     THEN last' = Resp("subscription-status", 400) /\ UNCHANGED inflight
     ELSE IF userId \notin DOMAIN users
     THEN last' = Resp("subscription-status", 404) /\ UNCHANGED inflight
     ELSE IF users[userId].subscriptionId = Null
     THEN last' = Resp("subscription-status", 200) /\ UNCHANGED inflight
     ELSE /\ Room
          /\ Suspend(Call("status", "retrieve", userId, userId,
                          users[userId].subscriptionId))
          /\ last' = Resp("subscription-status", Null)

\* line 230: the status the provider reports for subscription r.id is
\* written to the user object the handler looked up before the await
StatusWrite(us, r, status) == [us EXCEPT ![r.key].subscriptionStatus = status]

StatusDone(r, status) ==
  /\ r.op = "status"
  /\ users' = StatusWrite(users, r, status)
  /\ Resume(r)
  /\ last' = Resp("subscription-status", 200)
  /\ UNCHANGED <<userKeys, orders, nextCustomer, nextSession, nextPaypal,
                 webhookSecret>>

\* lines 238-241: subscriptions.retrieve rejected
StatusFailed(r) ==
  /\ r.op = "status"
  /\ Resume(r)
  /\ last' = Resp("subscription-status", 500)
  /\ UNCHANGED <<store, nextCustomer, nextSession, nextPaypal, webhookSecret>>

\* ------------------------------------------------ POST /create-paypal-order
\* lines 145-169: validation, then the await of client.execute
PaypalBegin(userId, amount) ==
  /\ UNCHANGED <<store, nextCustomer, nextSession, nextPaypal, webhookSecret>>
  /\ IF amount = Null
     THEN last' = Resp("create-paypal-order", 400) /\ UNCHANGED inflight
     ELSE /\ Room
          /\ Suspend(Call("paypal", "create", Null, userId, Null))
          /\ last' = Resp("create-paypal-order", Null)

\* lines 170-177: the provider created an order with a fresh id
PaypalCreated(r, status) ==
  /\ r.op = "paypal"
  /\ nextPaypal <= MaxPaypalOrders
  /\ orders' = OrdersSet(orders, -nextPaypal,
                 [provider |-> "paypal", ref |-> -nextPaypal,
                  userId |-> r.userId, status |-> status,
                  capture |-> NullStatus])
  /\ nextPaypal' = nextPaypal + 1
  /\ Resume(r)
  /\ last' = Resp("create-paypal-order", 200)
  /\ UNCHANGED <<users, userKeys, nextCustomer, nextSession, webhookSecret>>

\* lines 178-181
PaypalFailed(r) ==
  /\ r.op = "paypal"
  /\ Resume(r)
  /\ last' = Resp("create-paypal-order", 500)
  /\ UNCHANGED <<store, nextCustomer, nextSession, nextPaypal, webhookSecret>>

\* ----------------------------------------------- POST /capture-paypal-order
\* lines 190-197: validation, then the await of client.execute
CaptureBegin(orderId) ==
  /\ UNCHANGED <<store, nextCustomer, nextSession, nextPaypal, webhookSecret>>
  /\ IF orderId = Null
     THEN last' = Resp("capture-paypal-order", 400) /\ UNCHANGED inflight
     ELSE /\ Room
          /\ Suspend(Call("capture", "execute", Null, Null, orderId))
          /\ last' = Resp("capture-paypal-order", Null)

\* faulty variant of CaptureMerge: the existing record is not read
CaptureMergeReplace(os, id, status) ==
  OrdersSet(os, id, [NoOrder EXCEPT !.status = status, !.capture = status])

\* lines 200-203: orders.get(orderId) || {}, two fields assigned, set back
CaptureMerge(os, id, status) ==
  LET existing == IF id \in DOMAIN os THEN os[id] ELSE NoOrder
  IN OrdersSet(os, id, [existing EXCEPT !.status = status,
                                        !.capture = status])

CaptureDone(r, status) ==
  /\ r.op = "capture"
  /\ orders' = CaptureMerge(orders, r.id, status)
  /\ Resume(r)
  /\ last' = Resp("capture-paypal-order", 200)
  /\ UNCHANGED <<users, userKeys, nextCustomer, nextSession, nextPaypal,
                 webhookSecret>>

\* lines 207-210
CaptureFailed(r) ==
  /\ r.op = "capture"
  /\ Resume(r)
  /\ last' = Resp("capture-paypal-order", 500)
  /\ UNCHANGED <<store, nextCustomer, nextSession, nextPaypal, webhookSecret>>

\* ------------------------------------------------------ specifications
Inflight == BagToSet(inflight)

Checkout(emails) ==
  \/ \E userId \in UserIds \cup {Null}, email \in emails, priceId \in {Null, 1} :
        CheckoutBegin(userId, email, priceId)
  \/ \E r \in Inflight : CheckoutCustomerCreated(r)
  \/ \E r \in Inflight : CheckoutSessionCreated(r)
  \/ \E r \in Inflight : CheckoutFailed(r)

Hooks(events) == \E sigOk \in BOOLEAN, ev \in events : Webhook(sigOk, ev)

StatusQuery ==
  \/ \E userId \in UserKeys \cup {Null} : StatusBegin(userId)
  \/ \E r \in Inflight, status \in Statuses : StatusDone(r, status)
  \/ \E r \in Inflight : StatusFailed(r)

Paypal ==
  \/ \E userId \in UserIds \cup {Null}, amount \in {Null, 1} :
        PaypalBegin(userId, amount)
  \/ \E r \in Inflight, status \in PaypalStatuses : PaypalCreated(r, status)
  \/ \E r \in Inflight : PaypalFailed(r)
  \/ \E orderId \in PaypalIds \cup {Null} : CaptureBegin(orderId)
  \/ \E r \in Inflight, status \in PaypalStatuses : CaptureDone(r, status)
  \/ \E r \in Inflight : CaptureFailed(r)

\* every route, every input
Next ==
  \/ Checkout(Emails \cup {Null})
  \/ Hooks(Events)
  \/ StatusQuery
  \/ Paypal

Spec == Init /\ [][Next]_vars

\* checkout sessions and webhook deliveries
NextHook == Checkout({Null}) \/ Hooks(Events)

SpecHook == Init /\ [][NextHook]_vars

\* checkout sessions with and without an email, subscription events
UserEvents ==
  {ev \in SubscriptionEvents :
     ev.type = "customer.subscription.created" /\ ev.customer # Null}

NextUsers == Checkout(Emails \cup {Null}) \/ Hooks(UserEvents)

SpecUsers == Init /\ [][NextUsers]_vars

\* subscription events and status queries
NextStatus == Checkout({Null}) \/ Hooks(UserEvents) \/ StatusQuery

SpecStatus == Init /\ [][NextStatus]_vars

\* PayPal orders next to checkout sessions
NextPaypal == Checkout({Null}) \/ Paypal

SpecPaypal == Init /\ [][NextPaypal]_vars

\* ----------------------------------------------------------- properties
\* the step just taken is a webhook request whose event was handled: no
\* secret is configured, or the signature verified
HandledEvent ==
  /\ last'.route = "webhook"
  /\ webhookSecret => last'.sigOk
  /\ last'.ev.hasData

Others(u) == DOMAIN users \ {u}

FrameUsers(u) ==
  /\ DOMAIN users' = DOMAIN users
  /\ userKeys' = userKeys
  /\ \A v \in Others(u) : users'[v] = users[v]

\* C1: a handled checkout.session.completed event with a subscription and the
\* customer id of an existing user sets that user's subscriptionStatus to
\* "active" and its subscriptionId to the event's subscription; every other
\* user record stays as it was.
C1_CheckoutActivatesUser ==
  [][(HandledEvent /\ last'.ev.type = CheckoutCompleted
        /\ last'.ev.subscription # Null /\ last'.ev.customer # Null)
     => \A u \in DOMAIN users :
          users[u].stripeCustomerId = last'.ev.customer
          => /\ users'[u] = [users[u] EXCEPT
                               !.subscriptionId = last'.ev.subscription,
                               !.subscriptionStatus = "active"]
             /\ FrameUsers(u)]_vars

\* a checkout.session.completed event of a user's customer was just handled:
\* that user is active with the event's subscription, another user is not
C1_Witness ==
  /\ last.route = "webhook" /\ last.code = 200
  /\ last.ev.type = CheckoutCompleted
  /\ last.ev.subscription # Null
  /\ \E u \in DOMAIN users :
       /\ users[u].stripeCustomerId # Null
       /\ users[u].stripeCustomerId = last.ev.customer
       /\ users[u].subscriptionStatus = "active"
       /\ users[u].subscriptionId = last.ev.subscription
       /\ \E v \in Others(u) : users[v].subscriptionId # last.ev.subscription

\* C2: a handled customer.subscription.* event with the customer id of an
\* existing user overwrites that user's subscriptionId and subscriptionStatus
\* with the event's id and status and changes no other user and no order; with
\* no matching user nothing in the store changes.
C2_SubscriptionOverwrites ==
  [][(HandledEvent /\ last'.ev.type \in SubscriptionTypes
        /\ last'.ev.customer # Null)
     => /\ orders' = orders
        /\ \A u \in DOMAIN users :
             users[u].stripeCustomerId = last'.ev.customer
             => /\ users'[u] = [users[u] EXCEPT
                                  !.subscriptionId = last'.ev.id,
                                  !.subscriptionStatus = last'.ev.status]
                /\ FrameUsers(u)
        /\ (\A u \in DOMAIN users :
              users[u].stripeCustomerId # last'.ev.customer)
             => store' = store]_vars

\* a subscription deletion of a user's customer was just handled: that user
\* is canceled, another user and an order exist
C2_Witness ==
  /\ last.route = "webhook" /\ last.code = 200
  /\ last.ev.type = "customer.subscription.deleted"
  /\ last.ev.status = "canceled"
  /\ DOMAIN orders # {}
  /\ \E u \in DOMAIN users :
       /\ users[u].stripeCustomerId # Null
       /\ users[u].stripeCustomerId = last.ev.customer
       /\ users[u].subscriptionStatus = "canceled"
       /\ users[u].subscriptionId = last.ev.id
       /\ Others(u) # {}

\* C3: with a webhook secret configured, a request whose signature does not
\* verify is answered 400 and leaves users and orders as they were.
C3_BadSignatureRejected ==
  [][(last'.route = "webhook" /\ webhookSecret /\ ~last'.sigOk)
     => last'.code = 400 /\ store' = store]_vars

\* a request was just rejected while the store holds users and orders
C3_Witness ==
  /\ webhookSecret
  /\ last.route = "webhook" /\ ~last.sigOk /\ last.code = 400
  /\ DOMAIN users # {} /\ DOMAIN orders # {}

\* C4: a verified event of any type but checkout.session.completed and
\* customer.subscription.* is acknowledged with 200 and leaves users and orders
\* unchanged.
C4_LogOnlyEvents ==
  [][(last'.route = "webhook" /\ webhookSecret /\ last'.sigOk
        /\ last'.ev.type \notin SubscriptionTypes \cup {CheckoutCompleted})
     => last'.code = 200 /\ store' = store]_vars

\* a verified event of an unknown type was just acknowledged while the store
\* is not empty
C4_Witness ==
  /\ webhookSecret
  /\ last.route = "webhook" /\ last.sigOk /\ last.code = 200
  /\ last.ev.type = OtherType
  /\ DOMAIN users # {} /\ DOMAIN orders # {}

\* C7: an event whose handling raises an error (a handled type without its
\* data object) is answered 500, and a webhook request that is not answered
\* 200 never changes users or orders.
C7_FailedEventNotApplied ==
  [][/\ (last'.route = "webhook" /\ (webhookSecret => last'.sigOk)
           /\ ~last'.ev.hasData /\ last'.ev.type # OtherType)
          => last'.code = 500
     /\ (last'.route = "webhook" /\ last'.code # 200) => store' = store]_vars

\* a checkout.session.completed event without data object just failed with
\* 500 while the store holds users and orders
C7_Witness ==
  /\ last.route = "webhook" /\ last.code = 500
  /\ last.ev.type = CheckoutCompleted /\ ~last.ev.hasData
  /\ DOMAIN users # {} /\ DOMAIN orders # {}

\* C9: when create-checkout-session stored the order of a session with a user
\* id, a handled checkout.session.completed event for that session without a
\* user id in its metadata sets the status to "completed" and keeps the user id.
C9_OrderMergeKeepsUser ==
  [][(HandledEvent /\ last'.ev.type = CheckoutCompleted
        /\ last'.ev.metaUser = Null /\ last'.ev.id \in DOMAIN orders
        /\ orders[last'.ev.id].status = "created"
        /\ orders[last'.ev.id].userId # Null)
     => /\ orders'[last'.ev.id].status = "completed"
        /\ orders'[last'.ev.id].userId = orders[last'.ev.id].userId]_vars

\* C5: ensureUser, as create-checkout-session calls it, creates a record with
\* null customer id, subscription id and status for a key without record, and
\* for a key that has a record leaves every field of every record as it is.
C5_EnsureUserCreateIfAbsent ==
  [][\A userId \in UserIds \cup {Null}, email \in Emails \cup {Null} :
       (last'.route = "create-checkout-session" /\ last'.code = Null
          /\ CheckoutBegin(userId, email, 1))
       => LET key == IF userId # Null THEN userId ELSE AnonKey
          IN IF key \in DOMAIN users
             THEN users' = users /\ userKeys' = userKeys
             ELSE /\ DOMAIN users' = DOMAIN users \cup {key}
                  /\ userKeys' = Append(userKeys, key)
                  /\ users'[key] = [email |-> email, stripeCustomerId |-> Null,
                                    subscriptionId |-> Null,
                                    subscriptionStatus |-> NullStatus]
                  /\ \A v \in DOMAIN users : users'[v] = users[v]]_vars

\* create-checkout-session just called ensureUser for a user whose customer id
\* and subscription were assigned before (the only customer ever created)
C5_Witness ==
  /\ last = Resp("create-checkout-session", Null)
  /\ nextCustomer = 2
  /\ \E r \in Inflight :
       /\ r.op = "checkout" /\ r.pc = "session"
       /\ users[r.key].stripeCustomerId # Null
       /\ users[r.key].subscriptionId # Null
       /\ users[r.key].subscriptionStatus # NullStatus
       /\ users[r.key].email # Null

\* C6: a stripeCustomerId that is not null never changes.
C6_CustomerIdStable ==
  [][\A u \in DOMAIN users :
       users[u].stripeCustomerId # Null
       => users'[u].stripeCustomerId = users[u].stripeCustomerId]_vars

\* C8: a capture request with an order id suspends at the provider's capture
\* whether or not the order is known; when the provider answers, the order
\* exists with the reported status and the payload, keeps the other fields it
\* had, and nothing else in the store changes; when the provider fails the
\* answer is 500 and the store is unchanged.
CaptureReturns(r) ==
  r.op = "capture" /\ inflight' = inflight (-) SetToBag({r})

C8_CaptureUpsertsOrder ==
  [][/\ \A id \in PaypalIds :
          (last'.route = "capture-paypal-order" /\ CaptureBegin(id))
          => /\ CopiesIn(Call("capture", "execute", Null, Null, id), inflight')
                  = CopiesIn(Call("capture", "execute", Null, Null, id),
                             inflight) + 1
             /\ store' = store
     /\ \A r \in Inflight, status \in PaypalStatuses :
          (last'.route = "capture-paypal-order" /\ CaptureDone(r, status))
          => orders'[r.id].status = status /\ orders'[r.id].capture = status
     /\ \A r \in Inflight :
          CaptureReturns(r)
          => /\ last'.route = "capture-paypal-order"
             /\ \/ last'.code = 500 /\ store' = store
                \/ /\ last'.code = 200
                   /\ users' = users /\ userKeys' = userKeys
                   /\ DOMAIN orders' = DOMAIN orders \cup {r.id}
                   /\ \A k \in DOMAIN orders \ {r.id} : orders'[k] = orders[k]
                   /\ orders'[r.id].capture \in PaypalStatuses
                   /\ orders'[r.id].status = orders'[r.id].capture
                   /\ LET old == IF r.id \in DOMAIN orders
                                 THEN orders[r.id] ELSE NoOrder
                      IN /\ orders'[r.id].provider = old.provider
                         /\ orders'[r.id].ref = old.ref
                         /\ orders'[r.id].userId = old.userId]_vars

\* a capture just succeeded for an order create-paypal-order had stored for a
\* user, next to a checkout order and a user record
C8_Witness ==
  /\ last = Resp("capture-paypal-order", 200)
  /\ \E id \in DOMAIN orders :
       /\ orders[id].provider = "paypal"
       /\ orders[id].userId # Null
       /\ orders[id].capture = "COMPLETED"
       /\ orders[id].status = "COMPLETED"
       /\ \E k \in DOMAIN orders : orders[k].provider = "stripe"
  /\ DOMAIN users # {}

\* C10: a subscription-status query changes a record's subscriptionStatus only
\* to a status looked up for the subscriptionId the record holds at that time:
\* it never writes the status of a subscription the record no longer holds.
C10_StatusOfCurrentSubscription ==
  [][\A r \in Inflight, status \in Statuses :
       (last'.route = "subscription-status" /\ StatusDone(r, status)
          /\ users'[r.key].subscriptionStatus # users[r.key].subscriptionStatus)
       => users'[r.key].subscriptionId = r.id]_vars

====
